---- MODULE Spec2Model ----
(***************************************************************************)
(* A model of the AI tutor backend (src/server.py): the Firestore chat     *)
(* collections and test documents, the Cohere generation call, and the     *)
(* four request handlers chat, generate_test, submit_test and get_tests.   *)
(*                                                                         *)
(* A text is a sequence of symbols.  A symbol is either one whitespace     *)
(* character (" " or "\n") or one non-whitespace lexeme (a word, a JSON    *)
(* punctuation mark, a JSON literal).  str.strip, str.replace, str.upper   *)
(* and json.loads are computed on these sequences.                         *)
(*                                                                         *)
(* A Python dict is a function whose DOMAIN is the set of keys present, so *)
(* d.get(k, default) is Get(d, k, default).                                *)
(*                                                                         *)
(* Every handler runs as a request in one of the slots of Reqs; a step of  *)
(* a request is the code between two calls to a collaborator (Firestore or *)
(* Cohere), so requests of different slots interleave at those calls, as   *)
(* the threads of the Flask server do.                                     *)
(*                                                                         *)
(* Spec is the server with its four routes, one request at a time.         *)
(* SpecChat is the chat route with two requests at a time.  SpecScore is   *)
(* the scoring loop of submit_test, one item a step, and SpecFetch is      *)
(* fetch_chat_history on any collection and limit.  SpecAll is the four    *)
(* routes with two requests at a time on few inputs, and SpecReply is one  *)
(* chat at its call of generate_ai_reply, on any short text of the model.  *)
(* SpecPrompt is the building of a chat's prompt on any collection.        *)
(* SpecGrade is submit_test with two requests at a time, on two stored     *)
(* tests of different questions.                                           *)
(*                                                                         *)
(* now_iso() is a counter: two calls never return the same timestamp, and  *)
(* a later call returns a larger one.                                      *)
(***************************************************************************)
EXTENDS Integers, Sequences, FiniteSets, TLC

VARIABLES
    chats,      \* chats[uid]: the documents of students/{uid}/chats
    tests,      \* tests[uid]: test id -> document of students/{uid}/tests
    clock,      \* the next value now_iso() returns
    nextId,     \* the next auto-generated test document id
    req,        \* req[r]: the request running in slot r
    sc,         \* the scoring loop of submit_test, item by item (SpecScore)
    fx          \* a call of fetch_chat_history and its result (SpecFetch), or
                \* of build_prompt on a fetched window (SpecPrompt)

vars == <<chats, tests, clock, nextId, req, sc, fx>>

----------------------------------------------------------------------------
(* Bounds of the model *)

\* the chat documents student s1 holds when the server starts
SeedTurns == 4
\* the chat documents a run may add to the store
MaxTurns == 2
\* the chat documents a run of concurrent chats may add to the store
MaxChatTurns == 4
\* the test documents the store may hold, over all students
MaxTests == 1
\* the items of a submission whose scoring is followed item by item
MaxAnswers == 3
\* the timestamps of the documents of a collection that is queried, and the
\* largest limit of a query
MaxStamp == 4
MaxLimit == 3
\* the longest text of the model that SpecReply draws
MaxReplyLen == 6

----------------------------------------------------------------------------
(* Python values and string methods *)

Get(d, k, default) == IF k \in DOMAIN d THEN d[k] ELSE default

EmptyDict == <<>>

IsSpace(c) == c \in {" ", "\n"}

RECURSIVE lstrip(_)
lstrip(s) == IF s # <<>> /\ IsSpace(Head(s)) THEN lstrip(Tail(s)) ELSE s

RECURSIVE rstrip(_)
rstrip(s) ==
    IF s # <<>> /\ IsSpace(s[Len(s)]) THEN rstrip(SubSeq(s, 1, Len(s) - 1)) ELSE s

strip(s) == rstrip(lstrip(s))

\* str.replace(old, new): the non-overlapping occurrences, left to right
RECURSIVE replace(_, _, _)
replace(s, old, new) ==
    IF Len(s) < Len(old) THEN s
    ELSE IF SubSeq(s, 1, Len(old)) = old
         THEN new \o replace(SubSeq(s, Len(old) + 1, Len(s)), old, new)
         ELSE <<Head(s)>> \o replace(Tail(s), old, new)

upper(c) == CASE c = "user" -> "USER"
              [] c = "ai" -> "AI"
              [] OTHER -> c

reversed(s) == [i \in 1..Len(s) |-> s[Len(s) + 1 - i]]

ToDigit == <<"0", "1", "2", "3", "4", "5", "6", "7", "8", "9">>

\* str(n) of a natural number, in decimal
RECURSIVE ToStr(_)
ToStr(n) == IF n < 10 THEN <<ToDigit[n + 1]>>
            ELSE ToStr(n \div 10) \o <<ToDigit[(n % 10) + 1]>>

RECURSIVE join(_, _)
join(sep, lines) ==
    IF lines = <<>> THEN <<>>
    ELSE IF Len(lines) = 1 THEN lines[1]
    ELSE lines[1] \o sep \o join(sep, Tail(lines))

----------------------------------------------------------------------------
(* Firestore: the chat collection of a student *)

Uids == {<<"s1">>, <<"s2">>}

\* .order_by("timestamp", direction=DESCENDING)
RECURSIVE order_by_desc(_)
order_by_desc(coll) ==
    IF coll = {} THEN <<>>
    ELSE LET d == CHOOSE x \in coll : \A y \in coll : y.timestamp <= x.timestamp
         IN  <<d>> \o order_by_desc(coll \ {d})

\* .limit(n)
limit_to(docs, n) == SubSeq(docs, 1, IF Len(docs) < n THEN Len(docs) ELSE n)

\* fetch_chat_history without the reversed() of line 71
fetch_chat_history_noreverse(coll, limit) == limit_to(order_by_desc(coll), limit)

fetch_chat_history(coll, limit) == reversed(limit_to(order_by_desc(coll), limit))

format_history_for_prompt(history) ==
    join(<<"\n">>,
         [i \in 1..Len(history) |->
            <<upper(Get(history[i], "role", "user")), ": ">>
                \o Get(history[i], "message", <<>>)])

guardrails_prefix == <<"You are a friendly, encouraging AI tutor ...", "\n">>

\* build_prompt that puts the history text in as it is, empty or not
build_prompt_nomarker(history_text, latest_user_message) ==
    guardrails_prefix
    \o <<"Here is the recent conversation between YOU (the tutor) and the STUDENT:", "\n">>
    \o history_text
    \o <<"\n", "The STUDENT just said:", "\n", "\"">> \o latest_user_message
    \o <<"\"", "\n", "\n", "Respond now as the tutor.">>

build_prompt(history_text, latest_user_message) ==
    guardrails_prefix
    \o <<"Here is the recent conversation between YOU (the tutor) and the STUDENT:", "\n">>
    \o (IF strip(history_text) # <<>> THEN history_text
        ELSE <<"(no previous messages)", "\n">>)
    \o <<"\n", "The STUDENT just said:", "\n", "\"">> \o latest_user_message
    \o <<"\"", "\n", "\n", "Respond now as the tutor.">>

----------------------------------------------------------------------------
(* Cohere: co.generate and generate_ai_reply *)

\* the text of line 129 before {e} (its dash written in ASCII)
Apology == "Oops-I'm having trouble thinking right now: "

\* What co.generate(...) does: it returns a response whose first generation
\* has a text (a string, or None: text absent), it returns a response with no
\* generation, or it raises.
OkText(t)   == [kind |-> "ok", text |-> t]
NoText      == [kind |-> "none"]
NoGen       == [kind |-> "nogen"]
NotCalled   == [kind |-> "notcalled"]
Raises(e)   == [kind |-> "raise", e |-> e]

\* What evaluating a Python expression or call gives: a value, or an exception
Ret(v) == [st |-> "ret", val |-> v]
Exc(e) == [st |-> "exc", e |-> e]

\* lines 117-127, the body of the try: resp.generations[0] raises IndexError
\* when there is no generation; (text or "") makes an absent text empty
generate_try(prompt, o) ==
    CASE o.kind = "ok"    ->
            Ret(strip(replace(strip(o.text), <<"\n", "\n", "\n">>, <<"\n", "\n">>)))
      [] o.kind = "none"  ->
            Ret(strip(replace(strip(<<>>), <<"\n", "\n", "\n">>, <<"\n", "\n">>)))
      [] o.kind = "nogen" -> Exc(<<"list index out of range">>)
      [] o.kind = "raise" -> Exc(o.e)

\* generate_ai_reply without the except of lines 128-129
generate_ai_reply_noexcept(prompt, o) == generate_try(prompt, o)

generate_ai_reply(prompt, o) ==
    LET t == generate_try(prompt, o)
    IN  IF t.st = "exc" THEN Ret(<<Apology>> \o t.e) ELSE t

----------------------------------------------------------------------------
(* JSON values and json.loads *)

JNull    == [t |-> "null"]
JNum(n)  == [t |-> "num", n |-> n]
JStr(s)  == [t |-> "str", s |-> s]
JFloat(s) == [t |-> "float", s |-> s]
JList(x) == [t |-> "list", items |-> x]
JDict(d) == [t |-> "dict", d |-> d]

\* a multiple-choice and a short-answer question (a dict each)
Mcq(subject, question, options, answer) ==
    JDict([type |-> "mcq", subject |-> subject, question |-> question,
           options |-> options, answer |-> answer])
Short(subject, question) ==
    JDict([type |-> "short", subject |-> subject, question |-> question,
           answer |-> ""])

\* The lexemes of the JSON texts of the model.  QMcq and QShort each stand
\* for the whole literal of one question object, the two of lines 255-267.
NumLit == "1" :> 1
\* the constants json.loads accepts beyond the JSON grammar
ConstLit == {"NaN", "Infinity", "-Infinity"}
StrLit == ("\"questions\"" :> "questions") @@ ("\"error\"" :> "error")
ObjLit == ("QMcq" :> Mcq("Math", "What is 2+2?", <<"2", "3", "4", "5">>, "4"))
          @@ ("QShort" :> Short("Science", "Explain the process of photosynthesis."))

ParseFail == [ok |-> FALSE]
Parsed(v, rest) == [ok |-> TRUE, val |-> v, rest |-> rest]

RECURSIVE ParseValue(_), ParseItems(_, _), ParseMembers(_, _)
ParseValue(ts) ==
    IF ts = <<>> THEN ParseFail
    ELSE LET h == Head(ts)
             t == Tail(ts)
         IN  CASE h = "null" -> Parsed(JNull, t)
               [] h \in DOMAIN NumLit -> Parsed(JNum(NumLit[h]), t)
               [] h \in ConstLit -> Parsed(JFloat(h), t)
               [] h \in DOMAIN StrLit -> Parsed(JStr(<<StrLit[h]>>), t)
               [] h \in DOMAIN ObjLit -> Parsed(ObjLit[h], t)
               [] h = "[" -> IF t # <<>> /\ Head(t) = "]"
                             THEN Parsed(JList(<<>>), Tail(t))
                             ELSE ParseItems(t, <<>>)
               [] h = "{" -> IF t # <<>> /\ Head(t) = "}"
                             THEN Parsed(JDict(EmptyDict), Tail(t))
                             ELSE ParseMembers(t, EmptyDict)
               [] OTHER -> ParseFail

ParseItems(ts, acc) ==
    LET v == ParseValue(ts)
    IN  IF ~v.ok \/ v.rest = <<>> THEN ParseFail
        ELSE IF Head(v.rest) = "," THEN ParseItems(Tail(v.rest), Append(acc, v.val))
        ELSE IF Head(v.rest) = "]" THEN Parsed(JList(Append(acc, v.val)), Tail(v.rest))
        ELSE ParseFail

\* a key met twice keeps its last value
ParseMembers(ts, acc) ==
    IF Len(ts) < 2 \/ Head(ts) \notin DOMAIN StrLit \/ ts[2] # ":" THEN ParseFail
    ELSE LET v == ParseValue(SubSeq(ts, 3, Len(ts)))
             d == [k \in DOMAIN acc \cup {StrLit[Head(ts)]} |->
                        IF k = StrLit[Head(ts)] THEN v.val ELSE acc[k]]
         IN  IF ~v.ok \/ v.rest = <<>> THEN ParseFail
             ELSE IF Head(v.rest) = "," THEN ParseMembers(Tail(v.rest), d)
             ELSE IF Head(v.rest) = "}" THEN Parsed(JDict(d), Tail(v.rest))
             ELSE ParseFail

\* json.loads(s): one value, whitespace around the lexemes skipped, and
\* nothing after it; anything else raises
json_loads(s) ==
    LET v == ParseValue(SelectSeq(s, LAMBDA c : ~IsSpace(c)))
    IN  IF v.ok /\ v.rest = <<>> THEN Ret(v.val) ELSE Exc(<<"JSONDecodeError">>)

\* obj[key] with a str key
Subscript(obj, key) ==
    IF obj.t = "dict"
    THEN IF key \in DOMAIN obj.d THEN Ret(obj.d[key]) ELSE Exc("KeyError")
    ELSE Exc("TypeError")

----------------------------------------------------------------------------
(* Requests *)

Reqs == {"r1", "r2"}

\* The locals of a handler, and what the request did: calls counts its calls
\* of co.generate, gen is what the last of them gave, exc names the exception
\* that escaped the handler.  A slot that runs no request holds IdleReq.
IdleReq ==
    [pc |-> "idle", kind |-> "none", data |-> EmptyDict, uid |-> <<>>,
     user_msg |-> <<>>, history |-> <<>>, ai_reply |-> <<>>, calls |-> 0,
     test_data |-> JNull, test_id |-> <<>>, score |-> JNull,
     subject_scores |-> EmptyDict, gen |-> NotCalled, exc |-> "",
     status |-> 0, body |-> EmptyDict]

\* return jsonify(body), status
Respond(q, status, body) == [q EXCEPT !.pc = "done", !.status = status, !.body = body]

\* an exception no handler catches: Flask answers 500
InternalServerError(q, e) ==
    [Respond(q, 500, [error |-> "Internal Server Error"]) EXCEPT !.exc = e]

Docs == UNION {chats[u] : u \in Uids}

\* the chat documents the requests in flight have yet to add
Pending(r) == CASE req[r].pc = "save_user" -> 2
                [] req[r].pc \in {"fetch", "generate", "save_ai"} -> 1
                [] OTHER -> 0

RECURSIVE SumPending(_)
SumPending(R) ==
    IF R = {} THEN 0
    ELSE LET r == CHOOSE x \in R : TRUE IN Pending(r) + SumPending(R \ {r})

now_iso == clock

\* save_message that keeps one document a role: .document(role).set({...})
save_message_set(uid, role, message) ==
    /\ chats' = [chats EXCEPT ![uid] =
                    {d \in @ : d.role # role}
                    \cup {[role |-> role, message |-> message, timestamp |-> now_iso]}]
    /\ clock' = clock + 1

\* save_message: chats_collection(uid).add({...})
save_message(uid, role, message) ==
    /\ chats' = [chats EXCEPT ![uid] =
                    @ \cup {[role |-> role, message |-> message, timestamp |-> now_iso]}]
    /\ clock' = clock + 1

----------------------------------------------------------------------------
(* POST /chat, lines 151-189 *)

ChatBodies ==
    { EmptyDict,
      [message |-> <<"hi">>],
      [uid |-> <<"s1">>],
      [uid |-> <<" ">>, message |-> <<"hi">>],
      [uid |-> <<"s1">>, message |-> <<"\n", " ">>],
      [uid |-> <<"s1">>, message |-> <<"hi">>],
      [uid |-> <<" ", "s2">>, message |-> <<"hi", "\n">>] }

\* what the model's call gives in a chat
ChatOutcomes ==
    { OkText(<<"ok">>), OkText(<<"\n", "ok", " ">>), OkText(<<" ">>),
      NoText, Raises(<<"timeout">>) }

\* lines 165-172
ChatRecv(r, d, cap) ==
    /\ req[r].pc = "idle"
    /\ Cardinality(Docs) + SumPending(Reqs) + 2 <= cap
    /\ LET uid == strip(Get(d, "uid", <<>>))
           user_msg == strip(Get(d, "message", <<>>))
           q == [IdleReq EXCEPT !.kind = "chat", !.data = d]
       IN  req' = [req EXCEPT ![r] =
                IF uid = <<>> THEN Respond(q, 400, [error |-> "uid is required"])
                ELSE IF user_msg = <<>>
                     THEN Respond(q, 400, [error |-> "message is required"])
                     ELSE [q EXCEPT !.pc = "save_user", !.uid = uid,
                                    !.user_msg = user_msg]]
    /\ UNCHANGED <<chats, tests, clock, nextId, sc, fx>>

\* ChatSaveUser that goes on to the fetch without storing the message
ChatSaveUser_skip(r) ==
    /\ req[r].kind = "chat" /\ req[r].pc = "save_user"
    /\ req' = [req EXCEPT ![r].pc = "fetch"]
    /\ UNCHANGED <<chats, tests, clock, nextId, sc, fx>>

\* line 175
ChatSaveUser(r) ==
    /\ req[r].kind = "chat" /\ req[r].pc = "save_user"
    /\ save_message(req[r].uid, "user", req[r].user_msg)
    /\ req' = [req EXCEPT ![r].pc = "fetch"]
    /\ UNCHANGED <<tests, nextId, sc, fx>>

\* ChatFetch that fetches the newest turn alone
ChatFetch_one(r) ==
    /\ req[r].kind = "chat" /\ req[r].pc = "fetch"
    /\ req' = [req EXCEPT ![r].pc = "generate",
                          ![r].history = fetch_chat_history(chats[req[r].uid], 1)]
    /\ UNCHANGED <<chats, tests, clock, nextId, sc, fx>>

\* line 178
ChatFetch(r) ==
    /\ req[r].kind = "chat" /\ req[r].pc = "fetch"
    /\ req' = [req EXCEPT ![r].pc = "generate",
                          ![r].history = fetch_chat_history(chats[req[r].uid], 14)]
    /\ UNCHANGED <<chats, tests, clock, nextId, sc, fx>>

\* lines 179-183
ChatGenerate(r, o) ==
    /\ req[r].kind = "chat" /\ req[r].pc = "generate"
    /\ LET history_text == format_history_for_prompt(req[r].history)
           prompt == build_prompt(history_text, req[r].user_msg)
           ai_reply == generate_ai_reply(prompt, o)
       IN  req' = [req EXCEPT ![r] =
                IF ai_reply.st = "exc"
                THEN [InternalServerError(@, "GenerationError") EXCEPT
                            !.calls = @ + 1, !.gen = o]
                ELSE [@ EXCEPT !.pc = "save_ai", !.ai_reply = ai_reply.val,
                               !.calls = @ + 1, !.gen = o]]
    /\ UNCHANGED <<chats, tests, clock, nextId, sc, fx>>

\* ChatSaveAi that stores the reply only when the model's call did not fault
ChatSaveAi_onlyok(r) ==
    /\ req[r].kind = "chat" /\ req[r].pc = "save_ai"
    /\ IF req[r].gen.kind \in {"raise", "nogen"}
       THEN UNCHANGED <<chats, clock>>
       ELSE save_message(req[r].uid, "ai", req[r].ai_reply)
    /\ req' = [req EXCEPT ![r] = Respond(@, 200, [reply |-> req[r].ai_reply])]
    /\ UNCHANGED <<tests, nextId, sc, fx>>

\* lines 186-189
ChatSaveAi(r) ==
    /\ req[r].kind = "chat" /\ req[r].pc = "save_ai"
    /\ save_message(req[r].uid, "ai", req[r].ai_reply)
    /\ req' = [req EXCEPT ![r] = Respond(@, 200, [reply |-> req[r].ai_reply])]
    /\ UNCHANGED <<tests, nextId, sc, fx>>

----------------------------------------------------------------------------
(* POST /generate_test, lines 191-288 *)

\* lines 219-236 (the division sign and the degree sign written in ASCII)
default_test ==
    JDict([questions |-> JList(<<
        Mcq("Math", "What is 5 + 3?", <<"5", "6", "7", "8">>, "8"),
        Mcq("Math", "Which number is even?", <<"3", "7", "10", "9">>, "10"),
        Mcq("Science", "Which planet is known as the Red Planet?",
            <<"Earth", "Mars", "Venus", "Jupiter">>, "Mars"),
        Mcq("English", "Choose the correct plural of 'child'.",
            <<"childs", "children", "childes", "childer">>, "children"),
        Mcq("Math", "What is 12 / 4?", <<"2", "3", "4", "6">>, "3"),
        Mcq("Science", "Water boils at ___ C.", <<"50", "100", "200", "0">>, "100"),
        Mcq("General Knowledge", "What is the capital of India?",
            <<"Delhi", "Mumbai", "Chennai", "Kolkata">>, "Delhi"),
        Mcq("Math", "What is the square of 9?", <<"18", "81", "27", "72">>, "81"),
        Mcq("English", "Fill in the blank: The sun ___ in the east.",
            <<"rise", "rises", "rising", "rose">>, "rises"),
        Mcq("Science", "Which gas do we breathe in to stay alive?",
            <<"Oxygen", "Carbon Dioxide", "Nitrogen", "Helium">>, "Oxygen"),
        Short("English", "Write a sentence using the word 'school'."),
        Short("Math", "Explain how you would solve 25 / 5."),
        Short("Science", "Why is the sun important for life on Earth?"),
        Short("General Knowledge", "Name your favorite subject and explain why.")
    >>)])

\* lines 243-270
test_prompt(history_text) ==
    <<"You are an AI tutor. Based on this student's recent learning:", "\n">>
    \o history_text \o <<"\n", "Create a test with: ... Respond ONLY in valid JSON: ...">>

TestBodies ==
    { EmptyDict, [uid |-> <<"\n">>], [uid |-> <<"s1">>], [uid |-> <<"s2", " ">>] }

\* the JSON text of a questions object holding nm QMcq and ns QShort
QuestionsJson(nm, ns) ==
    <<"{", "\"questions\"", ":", "[">>
    \o join(<<",">>, [i \in 1..(nm + ns) |-> IF i <= nm THEN <<"QMcq">> ELSE <<"QShort">>])
    \o <<"]", "}">>

\* what the model's call gives when asked for a test
TestOutcomes ==
    { OkText(QuestionsJson(10, 4)),
      OkText(<<"\n", " ">> \o QuestionsJson(10, 4) \o <<"\n">>),
      OkText(QuestionsJson(1, 0)),
      OkText(QuestionsJson(0, 0)),
      OkText(QuestionsJson(10, 4) \o <<"Good", " ", "luck!">>),
      OkText(<<"{", "\"questions\"", ":", "[", "QMcq", ",">>),
      OkText(<<"Here", " ", "is", " ", "your", " ", "test.">>),
      OkText(<<"{", "}">>),
      OkText(<<"{", "\"error\"", ":", "null", "}">>),
      OkText(<<"{", "\"questions\"", ":", "null", "}">>),
      OkText(<<"[", "QMcq", ",", "QShort", "]">>),
      OkText(<<"1">>),
      OkText(<<"NaN">>),
      OkText(<<"\"questions\"">>),
      OkText(<<"null">>),
      OkText(<<>>),
      NoText, NoGen, Raises(<<"timeout">>) }

\* the test documents the requests in flight have yet to create
PendingTest(r) == IF req[r].pc \in {"gt_fetch", "gt_generate", "gt_persist"} THEN 1 ELSE 0

RECURSIVE SumPendingTest(_)
SumPendingTest(R) ==
    IF R = {} THEN 0
    ELSE LET r == CHOOSE x \in R : TRUE IN PendingTest(r) + SumPendingTest(R \ {r})

NumTests == Cardinality(DOMAIN tests[<<"s1">>]) + Cardinality(DOMAIN tests[<<"s2">>])

\* lines 206-210
GenRecv(r, d) ==
    /\ req[r].pc = "idle"
    /\ NumTests + SumPendingTest(Reqs) + 1 <= MaxTests
    /\ LET uid == strip(Get(d, "uid", <<>>))
           q == [IdleReq EXCEPT !.kind = "generate_test", !.data = d]
       IN  req' = [req EXCEPT ![r] =
                IF uid = <<>> THEN Respond(q, 400, [error |-> "uid is required"])
                ELSE [q EXCEPT !.pc = "gt_fetch", !.uid = uid]]
    /\ UNCHANGED <<chats, tests, clock, nextId, sc, fx>>

\* GenFetch with the threshold of line 239 at 3 turns
GenFetch_low(r) ==
    /\ req[r].kind = "generate_test" /\ req[r].pc = "gt_fetch"
    /\ LET history == fetch_chat_history(chats[req[r].uid], 20)
       IN  req' = [req EXCEPT ![r] =
                IF Len(history) < 3
                THEN [@ EXCEPT !.pc = "gt_persist", !.history = history,
                               !.test_data = default_test]
                ELSE [@ EXCEPT !.pc = "gt_generate", !.history = history]]
    /\ UNCHANGED <<chats, tests, clock, nextId, sc, fx>>

\* lines 213-240
GenFetch(r) ==
    /\ req[r].kind = "generate_test" /\ req[r].pc = "gt_fetch"
    /\ LET history == fetch_chat_history(chats[req[r].uid], 20)
       IN  req' = [req EXCEPT ![r] =
                IF Len(history) < 5
                THEN [@ EXCEPT !.pc = "gt_persist", !.history = history,
                               !.test_data = default_test]
                ELSE [@ EXCEPT !.pc = "gt_generate", !.history = history]]
    /\ UNCHANGED <<chats, tests, clock, nextId, sc, fx>>

\* GenGenerate without the try/except of lines 274-277
GenGenerate_notry(r, o) ==
    /\ req[r].kind = "generate_test" /\ req[r].pc = "gt_generate"
    /\ LET prompt == test_prompt(format_history_for_prompt(req[r].history))
           ai_reply == generate_ai_reply(prompt, o)
           loaded == json_loads(ai_reply.val)
       IN  req' = [req EXCEPT ![r] =
                IF loaded.st = "exc"
                THEN [InternalServerError(@, "JSONDecodeError") EXCEPT
                            !.ai_reply = ai_reply.val, !.calls = @ + 1, !.gen = o]
                ELSE [@ EXCEPT !.pc = "gt_persist", !.ai_reply = ai_reply.val,
                               !.calls = @ + 1, !.gen = o, !.test_data = loaded.val]]
    /\ UNCHANGED <<chats, tests, clock, nextId, sc, fx>>

\* lines 243-277
GenGenerate(r, o) ==
    /\ req[r].kind = "generate_test" /\ req[r].pc = "gt_generate"
    /\ LET prompt == test_prompt(format_history_for_prompt(req[r].history))
           ai_reply == generate_ai_reply(prompt, o)
           loaded == IF ai_reply.st = "exc" THEN ai_reply ELSE json_loads(ai_reply.val)
       IN  req' = [req EXCEPT ![r] =
                IF ai_reply.st = "exc"
                THEN [InternalServerError(@, "GenerationError") EXCEPT
                            !.calls = @ + 1, !.gen = o]
                ELSE [@ EXCEPT !.pc = "gt_persist", !.ai_reply = ai_reply.val,
                               !.calls = @ + 1, !.gen = o,
                               !.test_data = IF loaded.st = "exc" THEN default_test
                                             ELSE loaded.val]]
    /\ UNCHANGED <<chats, tests, clock, nextId, sc, fx>>

\* GenPersist that stores the new test as completed, with a score
GenPersist_scored(r) ==
    /\ req[r].kind = "generate_test" /\ req[r].pc = "gt_persist"
    /\ LET questions == Subscript(req[r].test_data, "questions")
           id == <<"t">> \o ToStr(nextId)
           uid == req[r].uid
       IN  IF questions.st = "exc"
           THEN /\ req' = [req EXCEPT ![r] = InternalServerError(@, questions.e)]
                /\ UNCHANGED <<tests, clock, nextId>>
           ELSE /\ tests' = [tests EXCEPT ![uid] =
                        [k \in DOMAIN @ \cup {id} |->
                            IF k = id
                            THEN [createdAt |-> now_iso, questions |-> questions.val,
                                  completed |-> TRUE, score |-> JStr(<<"0", "/", "0">>)]
                            ELSE @[k]]]
                /\ clock' = clock + 1
                /\ nextId' = nextId + 1
                /\ req' = [req EXCEPT ![r] =
                        Respond(@, 200, [testId |-> id, questions |-> questions.val])]
    /\ UNCHANGED <<chats, sc, fx>>

\* lines 280-288: test_data["questions"] is evaluated before the write
GenPersist(r) ==
    /\ req[r].kind = "generate_test" /\ req[r].pc = "gt_persist"
    /\ LET questions == Subscript(req[r].test_data, "questions")
           id == <<"t">> \o ToStr(nextId)
           uid == req[r].uid
       IN  IF questions.st = "exc"
           THEN /\ req' = [req EXCEPT ![r] = InternalServerError(@, questions.e)]
                /\ UNCHANGED <<tests, clock, nextId>>
           ELSE /\ tests' = [tests EXCEPT ![uid] =
                        [k \in DOMAIN @ \cup {id} |->
                            IF k = id
                            THEN [createdAt |-> now_iso, questions |-> questions.val,
                                  completed |-> FALSE, score |-> JNull]
                            ELSE @[k]]]
                /\ clock' = clock + 1
                /\ nextId' = nextId + 1
                /\ req' = [req EXCEPT ![r] =
                        Respond(@, 200, [testId |-> id, questions |-> questions.val])]
    /\ UNCHANGED <<chats, sc, fx>>

----------------------------------------------------------------------------
(* POST /submit_test, lines 291-333 *)

\* lines 302-304
ScoreStart == [subject_scores |-> EmptyDict, correct_count |-> 0, total_mcq |-> 0]

\* AnsweredRight without the first operand of the and of line 310
AnsweredRight_noempty(q) ==
    /\ "studentAnswer" \in DOMAIN q
    /\ "answer" \in DOMAIN q
    /\ q.studentAnswer = q.answer

\* line 310: q.get("studentAnswer") and q.get("studentAnswer") == q.get("answer")
AnsweredRight(q) ==
    /\ "studentAnswer" \in DOMAIN q
    /\ q.studentAnswer # ""
    /\ "answer" \in DOMAIN q
    /\ q.studentAnswer = q.answer

\* subject_scores[subj] = entry
SetEntry(subject_scores, subj, entry) ==
    [k \in DOMAIN subject_scores \cup {subj} |->
        IF k = subj THEN entry ELSE subject_scores[k]]

\* score_item with line 316 inside the else of line 314: a right answer does
\* not count towards the subject's total
score_item_nototal(s, q) ==
    LET subj == Get(q, "subject", "General")
        cur == Get(s.subject_scores, subj, [correct |-> 0, total |-> 0])
    IN  IF Get(q, "type", "") = "mcq"
        THEN IF AnsweredRight(q)
             THEN [subject_scores |->
                        SetEntry(s.subject_scores, subj,
                                 [correct |-> cur.correct + 1, total |-> cur.total]),
                   correct_count |-> s.correct_count + 1,
                   total_mcq |-> s.total_mcq + 1]
             ELSE [subject_scores |->
                        SetEntry(s.subject_scores, subj,
                                 [correct |-> cur.correct, total |-> cur.total + 1]),
                   correct_count |-> s.correct_count,
                   total_mcq |-> s.total_mcq + 1]
        ELSE [subject_scores |->
                    SetEntry(s.subject_scores, subj,
                             [correct |-> cur.correct, total |-> cur.total + 1]),
              correct_count |-> s.correct_count,
              total_mcq |-> s.total_mcq]

\* lines 307-320: one turn of the loop, on item q
score_item(s, q) ==
    LET subj == Get(q, "subject", "General")
        cur == Get(s.subject_scores, subj, [correct |-> 0, total |-> 0])
    IN  IF Get(q, "type", "") = "mcq"
        THEN IF AnsweredRight(q)
             THEN [subject_scores |->
                        SetEntry(s.subject_scores, subj,
                                 [correct |-> cur.correct + 1, total |-> cur.total + 1]),
                   correct_count |-> s.correct_count + 1,
                   total_mcq |-> s.total_mcq + 1]
             ELSE [subject_scores |->
                        SetEntry(s.subject_scores, subj,
                                 [correct |-> cur.correct, total |-> cur.total + 1]),
                   correct_count |-> s.correct_count,
                   total_mcq |-> s.total_mcq + 1]
        ELSE [subject_scores |->
                    SetEntry(s.subject_scores, subj,
                             [correct |-> cur.correct, total |-> cur.total + 1]),
              correct_count |-> s.correct_count,
              total_mcq |-> s.total_mcq]

\* lines 306-320: the loop over answers
RECURSIVE score_loop(_, _)
score_loop(s, answers) ==
    IF answers = <<>> THEN s ELSE score_loop(score_item(s, Head(answers)), Tail(answers))

\* line 322
format_score(s) ==
    IF s.total_mcq > 0
    THEN JStr(ToStr(s.correct_count) \o <<"/">> \o ToStr(s.total_mcq))
    ELSE JNull

\* the submission of scenario 3 of the specification, and two others
Answers1 ==
    << [subject |-> "Math", type |-> "mcq", studentAnswer |-> "8", answer |-> "8"],
       [subject |-> "Math", type |-> "mcq", studentAnswer |-> "6", answer |-> "8"] >>
Answers2 ==
    << [subject |-> "Art", type |-> "short", studentAnswer |-> "a tree", answer |-> ""],
       [type |-> "mcq", studentAnswer |-> "", answer |-> ""] >>

SubmitBodies ==
    { EmptyDict,
      [uid |-> <<"s1">>],
      [testId |-> <<"t", "1">>, answers |-> Answers1],
      [uid |-> <<" ">>, testId |-> <<"t", "1">>, answers |-> Answers1],
      [uid |-> <<"s1">>, testId |-> <<"\n">>, answers |-> Answers1],
      [uid |-> <<"s1">>, testId |-> <<"t", "1">>],
      [uid |-> <<"s1">>, testId |-> <<"t", "1">>, answers |-> Answers1],
      [uid |-> <<"s1">>, testId |-> <<" ", "t", "1">>, answers |-> Answers2],
      [uid |-> <<"s1">>, testId |-> <<"t", "2">>, answers |-> Answers2],
      [uid |-> <<"s2">>, testId |-> <<"t", "1">>, answers |-> Answers1] }

\* SubmitRecv that requires the uid alone
SubmitRecv_uidonly(r, d) ==
    /\ req[r].pc = "idle"
    /\ LET uid == strip(Get(d, "uid", <<>>))
           test_id == strip(Get(d, "testId", <<>>))
           answers == Get(d, "answers", <<>>)
           s == score_loop(ScoreStart, answers)
           q == [IdleReq EXCEPT !.kind = "submit_test", !.data = d]
       IN  req' = [req EXCEPT ![r] =
                IF uid = <<>>
                THEN Respond(q, 400, [error |-> "uid and testId are required"])
                ELSE [q EXCEPT !.pc = "st_update", !.uid = uid, !.test_id = test_id,
                               !.score = format_score(s),
                               !.subject_scores = s.subject_scores]]
    /\ UNCHANGED <<chats, tests, clock, nextId, sc, fx>>

\* the submitted items, each with the answer of the stored question of its
\* place where the stored test has one
WithStoredAnswers(answers, uid, test_id) ==
    LET stored == IF test_id \in DOMAIN tests[uid]
                  THEN tests[uid][test_id].questions ELSE JNull
    IN  [i \in 1..Len(answers) |->
            IF stored.t = "list" /\ i <= Len(stored.items)
            THEN [k \in DOMAIN answers[i] \cup {"answer"} |->
                    IF k = "answer" THEN stored.items[i].d.answer ELSE answers[i][k]]
            ELSE answers[i]]

\* SubmitRecv that grades against the answers of the stored test
SubmitRecv_stored(r, d) ==
    /\ req[r].pc = "idle"
    /\ LET uid == strip(Get(d, "uid", <<>>))
           test_id == strip(Get(d, "testId", <<>>))
           answers == Get(d, "answers", <<>>)
           s == score_loop(ScoreStart, WithStoredAnswers(answers, uid, test_id))
           q == [IdleReq EXCEPT !.kind = "submit_test", !.data = d]
       IN  req' = [req EXCEPT ![r] =
                IF uid = <<>> \/ test_id = <<>>
                THEN Respond(q, 400, [error |-> "uid and testId are required"])
                ELSE [q EXCEPT !.pc = "st_update", !.uid = uid, !.test_id = test_id,
                               !.score = format_score(s),
                               !.subject_scores = s.subject_scores]]
    /\ UNCHANGED <<chats, tests, clock, nextId, sc, fx>>

\* lines 293-322
SubmitRecv(r, d) ==
    /\ req[r].pc = "idle"
    /\ LET uid == strip(Get(d, "uid", <<>>))
           test_id == strip(Get(d, "testId", <<>>))
           answers == Get(d, "answers", <<>>)
           s == score_loop(ScoreStart, answers)
           q == [IdleReq EXCEPT !.kind = "submit_test", !.data = d]
       IN  req' = [req EXCEPT ![r] =
                IF uid = <<>> \/ test_id = <<>>
                THEN Respond(q, 400, [error |-> "uid and testId are required"])
                ELSE [q EXCEPT !.pc = "st_update", !.uid = uid, !.test_id = test_id,
                               !.score = format_score(s),
                               !.subject_scores = s.subject_scores]]
    /\ UNCHANGED <<chats, tests, clock, nextId, sc, fx>>

\* lines 325-333: update() of a document that does not exist raises NotFound
SubmitUpdate(r) ==
    /\ req[r].kind = "submit_test" /\ req[r].pc = "st_update"
    /\ LET uid == req[r].uid
           id == req[r].test_id
           fields == [completed |-> TRUE,
                      studentAnswers |-> Get(req[r].data, "answers", <<>>),
                      score |-> req[r].score,
                      subjectScores |-> req[r].subject_scores]
       IN  IF id \notin DOMAIN tests[uid]
           THEN /\ req' = [req EXCEPT ![r] = InternalServerError(@, "NotFound")]
                /\ UNCHANGED tests
           ELSE /\ tests' = [tests EXCEPT ![uid][id] =
                        [k \in DOMAIN @ \cup DOMAIN fields |->
                            IF k \in DOMAIN fields THEN fields[k] ELSE @[k]]]
                /\ req' = [req EXCEPT ![r] =
                        Respond(@, 200, [message |-> "Test submitted",
                                         score |-> req[r].score,
                                         subjectScores |-> req[r].subject_scores])]
    /\ UNCHANGED <<chats, clock, nextId, sc, fx>>

----------------------------------------------------------------------------
(* POST /get_tests, lines 336-357 *)

ListBodies == { EmptyDict, [uid |-> <<" ", "\n">>], [uid |-> <<"s1">>], [uid |-> <<"s2">>] }

\* .order_by("createdAt"), each document with its id as testId
RECURSIVE order_by_createdAt(_, _)
order_by_createdAt(docs, ids) ==
    IF ids = {} THEN <<>>
    ELSE LET id == CHOOSE x \in ids : \A y \in ids : docs[x].createdAt <= docs[y].createdAt
             item == [k \in DOMAIN docs[id] \cup {"testId"} |->
                        IF k = "testId" THEN id ELSE docs[id][k]]
         IN  <<item>> \o order_by_createdAt(docs, ids \ {id})

\* lines 342-346
ListRecv(r, d) ==
    /\ req[r].pc = "idle"
    /\ LET uid == strip(Get(d, "uid", <<>>))
           q == [IdleReq EXCEPT !.kind = "get_tests", !.data = d]
       IN  req' = [req EXCEPT ![r] =
                IF uid = <<>> THEN Respond(q, 400, [error |-> "uid is required"])
                ELSE [q EXCEPT !.pc = "ls_query", !.uid = uid]]
    /\ UNCHANGED <<chats, tests, clock, nextId, sc, fx>>

\* lines 348-357
ListQuery(r) ==
    /\ req[r].kind = "get_tests" /\ req[r].pc = "ls_query"
    /\ LET docs == tests[req[r].uid]
       IN  req' = [req EXCEPT ![r] =
                Respond(@, 200, [tests |-> order_by_createdAt(docs, DOMAIN docs)])]
    /\ UNCHANGED <<chats, tests, clock, nextId, sc, fx>>

----------------------------------------------------------------------------
(* Faults of the store, and the end of a request *)

StoragePcs ==
    {"save_user", "fetch", "save_ai", "gt_fetch", "gt_persist", "st_update", "ls_query"}

\* StorageFault with save_message swallowing the exception: the write is
\* dropped and the handler goes on
StorageFault_swallowed(r) ==
    /\ req[r].pc \in StoragePcs
    /\ req' = [req EXCEPT ![r] =
                  IF @.pc = "save_user" THEN [@ EXCEPT !.pc = "fetch"]
                  ELSE IF @.pc = "save_ai" THEN Respond(@, 200, [reply |-> @.ai_reply])
                  ELSE InternalServerError(@, "StorageError")]
    /\ UNCHANGED <<chats, tests, clock, nextId, sc, fx>>

\* a Firestore call raises; no handler catches it
StorageFault(r) ==
    /\ req[r].pc \in StoragePcs
    /\ req' = [req EXCEPT ![r] = InternalServerError(@, "StorageError")]
    /\ UNCHANGED <<chats, tests, clock, nextId, sc, fx>>

\* the response is sent and the slot is free again
Reply(r) ==
    /\ req[r].pc = "done"
    /\ req' = [req EXCEPT ![r] = IdleReq]
    /\ UNCHANGED <<chats, tests, clock, nextId, sc, fx>>

----------------------------------------------------------------------------
\* A chat collection n documents long that earlier chats of one student left:
\* the student's "hi" and the tutor's "ok" in turn.
SeedLog(n) ==
    { [role |-> IF i % 2 = 1 THEN "user" ELSE "ai",
       message |-> IF i % 2 = 1 THEN <<"hi">> ELSE <<"ok">>,
       timestamp |-> i] : i \in 1..n }

\* The server starts on a store where student s1 has chatted before and
\* student s2 has not.
Init ==
    /\ chats = [u \in Uids |-> IF u = <<"s1">> THEN SeedLog(SeedTurns) ELSE {}]
    /\ clock = SeedTurns + 1
    /\ tests = [u \in Uids |-> EmptyDict]
    /\ nextId = 1
    /\ req = [r \in Reqs |-> IdleReq]
    /\ sc = EmptyDict
    /\ fx = EmptyDict

Step(r) ==
    \/ \E d \in ChatBodies : ChatRecv(r, d, SeedTurns + MaxTurns)
    \/ ChatSaveUser(r)
    \/ ChatFetch(r)
    \/ \E o \in ChatOutcomes : ChatGenerate(r, o)
    \/ ChatSaveAi(r)
    \/ \E d \in TestBodies : GenRecv(r, d)
    \/ GenFetch(r)
    \/ \E o \in TestOutcomes : GenGenerate(r, o)
    \/ GenPersist(r)
    \/ \E d \in SubmitBodies : SubmitRecv(r, d)
    \/ SubmitUpdate(r)
    \/ \E d \in ListBodies : ListRecv(r, d)
    \/ ListQuery(r)
    \/ StorageFault(r)
    \/ Reply(r)

\* the server, its requests handled one at a time
Next == Step("r1")

Spec == Init /\ [][Next]_vars

----------------------------------------------------------------------------
(* The chat handler alone, two requests at a time *)

ChatStep(r) ==
    \/ \E d \in ChatBodies : ChatRecv(r, d, SeedTurns + MaxChatTurns)
    \/ ChatSaveUser(r)
    \/ ChatFetch(r)
    \/ \E o \in ChatOutcomes : ChatGenerate(r, o)
    \/ ChatSaveAi(r)
    \/ StorageFault(r)
    \/ Reply(r)

NextChat == \E r \in Reqs : ChatStep(r)

SpecChat == Init /\ [][NextChat]_vars

----------------------------------------------------------------------------
(* The scoring loop of submit_test alone, one item a step *)

AnswerItems ==
    { [subject |-> "Math", type |-> "mcq", studentAnswer |-> "8", answer |-> "8"],
      [subject |-> "Math", type |-> "mcq", studentAnswer |-> "6", answer |-> "8"],
      [type |-> "mcq", studentAnswer |-> "", answer |-> ""],
      [subject |-> "Art", type |-> "mcq", answer |-> "4"],
      [subject |-> "Art", type |-> "short", studentAnswer |-> "x", answer |-> ""],
      [subject |-> "Art", studentAnswer |-> "x"],
      [subject |-> "Math", type |-> "short", studentAnswer |-> "8", answer |-> "8"] }

AnswerLists == UNION {[1..n -> AnswerItems] : n \in 0..MaxAnswers}

InitScore ==
    /\ chats = [u \in Uids |-> {}]
    /\ clock = 1
    /\ tests = [u \in Uids |-> EmptyDict]
    /\ nextId = 1
    /\ req = [r \in Reqs |-> IdleReq]
    /\ fx = EmptyDict
    /\ \E a \in AnswerLists :
          sc = [pc |-> "loop", answers |-> a, i |-> 1, s |-> ScoreStart, score |-> JNull]

\* lines 306-320, for q = answers[i]
ScoreItem ==
    /\ sc.pc = "loop" /\ sc.i <= Len(sc.answers)
    /\ sc' = [sc EXCEPT !.s = score_item(@, sc.answers[sc.i]), !.i = @ + 1]
    /\ UNCHANGED <<chats, tests, clock, nextId, req, fx>>

\* line 322, after the last item
ScoreFinish ==
    /\ sc.pc = "loop" /\ sc.i > Len(sc.answers)
    /\ sc' = [sc EXCEPT !.pc = "done", !.score = format_score(sc.s)]
    /\ UNCHANGED <<chats, tests, clock, nextId, req, fx>>

NextScore == ScoreItem \/ ScoreFinish

SpecScore == InitScore /\ [][NextScore]_vars

----------------------------------------------------------------------------
(* fetch_chat_history alone, on any collection and any limit *)

\* the collections of one student: documents of either role, their
\* timestamps distinct
StampSets == SUBSET (1..MaxStamp)
Collections ==
    UNION { { { [role |-> rl[t], message |-> IF rl[t] = "user" THEN <<"hi">> ELSE <<"ok">>,
                 timestamp |-> t] : t \in T } : rl \in [T -> {"user", "ai"}] }
            : T \in StampSets }

InitFetch ==
    /\ \E c \in Collections : chats = [u \in Uids |-> IF u = <<"s1">> THEN c ELSE {}]
    /\ clock = MaxStamp + 1
    /\ tests = [u \in Uids |-> EmptyDict]
    /\ nextId = 1
    /\ req = [r \in Reqs |-> IdleReq]
    /\ sc = EmptyDict
    /\ fx = EmptyDict

\* a call fetch_chat_history(uid, limit)
Fetch(uid, limit) ==
    /\ fx' = [uid |-> uid, limit |-> limit,
              result |-> fetch_chat_history(chats[uid], limit)]
    /\ UNCHANGED <<chats, tests, clock, nextId, req, sc>>

NextFetch == \E uid \in Uids : \E limit \in 1..MaxLimit : Fetch(uid, limit)

SpecFetch == InitFetch /\ [][NextFetch]_vars

----------------------------------------------------------------------------
(* The four handlers, two requests at a time, on few inputs *)

AllChatBodies == { [uid |-> <<"s1">>], [uid |-> <<"s1">>, message |-> <<"hi">>] }
AllChatOutcomes == { OkText(<<"\n", "ok", " ">>) }
AllTestBodies == { [uid |-> <<"s1">>] }
AllTestOutcomes == { OkText(QuestionsJson(1, 0)) }
AllSubmitBodies ==
    { [uid |-> <<"s1">>, testId |-> <<"t", "1">>, answers |-> Answers1],
      [uid |-> <<"s1">>, testId |-> <<"t", "1">>, answers |-> Answers2] }
AllListBodies == { [uid |-> <<"s1">>] }

AllStep(r) ==
    \/ \E d \in AllChatBodies : ChatRecv(r, d, SeedTurns + MaxChatTurns)
    \/ ChatSaveUser(r)
    \/ ChatFetch(r)
    \/ \E o \in AllChatOutcomes : ChatGenerate(r, o)
    \/ ChatSaveAi(r)
    \/ \E d \in AllTestBodies : GenRecv(r, d)
    \/ GenFetch(r)
    \/ \E o \in AllTestOutcomes : GenGenerate(r, o)
    \/ GenPersist(r)
    \/ \E d \in AllSubmitBodies : SubmitRecv(r, d)
    \/ SubmitUpdate(r)
    \/ \E d \in AllListBodies : ListRecv(r, d)
    \/ ListQuery(r)
    \/ StorageFault(r)
    \/ Reply(r)

NextAll == \E r \in Reqs : AllStep(r)

SpecAll == Init /\ [][NextAll]_vars

----------------------------------------------------------------------------
(* generate_ai_reply in a chat, on any text of the model *)

\* the texts of the model: a word, a space and a newline in any order
ReplyChars == {"a", " ", "\n"}
ReplyTexts == UNION {[1..n -> ReplyChars] : n \in 0..MaxReplyLen}

\* a chat of student s1 that has stored its message and fetched its window
InitReply ==
    /\ chats = [u \in Uids |->
                  IF u = <<"s1">>
                  THEN SeedLog(SeedTurns) \cup
                       {[role |-> "user", message |-> <<"hi">>, timestamp |-> SeedTurns + 1]}
                  ELSE {}]
    /\ clock = SeedTurns + 2
    /\ tests = [u \in Uids |-> EmptyDict]
    /\ nextId = 1
    /\ req = [r \in Reqs |->
                IF r = "r1"
                THEN [IdleReq EXCEPT
                        !.kind = "chat", !.pc = "generate",
                        !.data = [uid |-> <<"s1">>, message |-> <<"hi">>],
                        !.uid = <<"s1">>, !.user_msg = <<"hi">>,
                        !.history = fetch_chat_history(chats[<<"s1">>], 14)]
                ELSE IdleReq]
    /\ sc = EmptyDict
    /\ fx = EmptyDict

NextReply ==
    \/ \E t \in ReplyTexts : ChatGenerate("r1", OkText(t))
    \/ ChatSaveAi("r1")

SpecReply == InitReply /\ [][NextReply]_vars

----------------------------------------------------------------------------
(* The prompt of a chat, on any collection and any new message *)

\* the collections of one student: documents of either role, with a text or
\* with none, their timestamps distinct
PromptCollections ==
    UNION { { { [role |-> rl[t], message |-> ms[t], timestamp |-> t] : t \in T }
              : rl \in [T -> {"user", "ai"}], ms \in [T -> {<<"hi">>, <<>>}] }
            : T \in StampSets }

PromptMessages == { <<"hi">>, <<"a", "\n", "b">> }

InitPrompt ==
    /\ \E c \in PromptCollections :
          chats = [u \in Uids |-> IF u = <<"s1">> THEN c ELSE {}]
    /\ clock = MaxStamp + 1
    /\ tests = [u \in Uids |-> EmptyDict]
    /\ nextId = 1
    /\ req = [r \in Reqs |-> IdleReq]
    /\ sc = EmptyDict
    /\ fx = EmptyDict

\* lines 178-180 of chat, for the new message msg of student uid
Prompt(uid, msg) ==
    /\ LET history == fetch_chat_history(chats[uid], 14)
           history_text == format_history_for_prompt(history)
       IN  fx' = [uid |-> uid, message |-> msg, window |-> history,
                  prompt |-> build_prompt(history_text, msg)]
    /\ UNCHANGED <<chats, tests, clock, nextId, req, sc>>

NextPrompt == \E uid \in Uids : \E msg \in PromptMessages : Prompt(uid, msg)

SpecPrompt == InitPrompt /\ [][NextPrompt]_vars

----------------------------------------------------------------------------
(* submit_test, two requests at a time, on two tests of different questions *)

PendingTestDoc(createdAt, questions) ==
    [createdAt |-> createdAt, questions |-> questions,
     completed |-> FALSE, score |-> JNull]

\* what generate_test stored from a reply of the model with 10 + 4 questions
ModelQuestions == Subscript(json_loads(QuestionsJson(10, 4)).val, "questions").val

GradeBodies ==
    { [uid |-> u, testId |-> t, answers |-> a] :
        u \in Uids, t \in {<<"t", "1">>, <<"t", "2">>},
        a \in {<<>>, Answers1, Answers2} }
    \cup { [uid |-> u, testId |-> <<"t", "1">>] : u \in Uids }

\* Student s1 has chatted further and holds test t1, made from a reply of the
\* model; student s2 has never chatted and holds test t2, the default test.
InitGrade ==
    /\ chats = [u \in Uids |-> IF u = <<"s1">> THEN SeedLog(SeedTurns + 2) ELSE {}]
    /\ tests = [u \in Uids |->
                  IF u = <<"s1">>
                  THEN [k \in {<<"t", "1">>} |->
                            PendingTestDoc(SeedTurns + 3, ModelQuestions)]
                  ELSE [k \in {<<"t", "2">>} |->
                            PendingTestDoc(SeedTurns + 4, default_test.d["questions"])]]
    /\ clock = SeedTurns + 5
    /\ nextId = 3
    /\ req = [r \in Reqs |-> IdleReq]
    /\ sc = EmptyDict
    /\ fx = EmptyDict

GradeStep(r) ==
    \/ \E d \in GradeBodies : SubmitRecv(r, d)
    \/ SubmitUpdate(r)
    \/ Reply(r)

NextGrade == \E r \in Reqs : GradeStep(r)

SpecGrade == InitGrade /\ [][NextGrade]_vars

----------------------------------------------------------------------------
(* The claims *)

TestDone(r) == req[r].kind = "generate_test" /\ req[r].pc = "done"

\* the test document a finished generate_test created
Created(r) == tests[req[r].uid][req[r].body.testId]

IsQuestionOfType(v, type) == v.t = "dict" /\ Get(v.d, "type", "") = type

TenPlusFour(v) ==
    /\ v.t = "list"
    /\ Len(v.items) = 14
    /\ Cardinality({i \in 1..Len(v.items) : IsQuestionOfType(v.items[i], "mcq")}) = 10
    /\ Cardinality({i \in 1..Len(v.items) : IsQuestionOfType(v.items[i], "short")}) = 4

\* C1: every generate_test that completes persists and returns a list of
\* exactly 14 questions, 10 multiple-choice and 4 short-answer, whatever the
\* model returned.
C1_AlwaysFourteen ==
    \A r \in Reqs :
        TestDone(r) /\ req[r].status = 200 =>
            /\ TenPlusFour(req[r].body.questions)
            /\ Created(r).questions = req[r].body.questions

\* C2: with fewer than 5 turns fetched, generate_test does not call the model,
\* and what it persists and returns is the fallback template, in its order.
C2_ShortHistoryTemplate ==
    \A r \in Reqs :
        /\ req[r].kind = "generate_test"
        /\ req[r].pc \in {"gt_generate", "gt_persist", "done"}
        /\ req[r].uid # <<>>
        /\ Len(req[r].history) < 5
        => /\ req[r].calls = 0
           /\ req[r].pc # "gt_generate"
           /\ req[r].exc \in {"", "StorageError"}
           /\ req[r].status = 200 =>
                /\ req[r].body.questions = default_test.d.questions
                /\ Created(r).questions = default_test.d.questions

C2_Witness ==
    \E r \in Reqs :
        /\ TestDone(r) /\ req[r].status = 200
        /\ Len(req[r].history) = 2
        /\ req[r].body.questions = default_test.d.questions

\* the reply of the gateway is no JSON text
NotJson(text) == json_loads(text).st = "exc"

\* C3: with at least 5 turns and a reply that is not valid JSON, generate_test
\* persists and returns the template, and no exception escapes.
C3_NotJsonFallsBack ==
    \A r \in Reqs :
        /\ req[r].kind = "generate_test"
        /\ req[r].pc \in {"gt_persist", "done"}
        /\ Len(req[r].history) >= 5
        /\ req[r].calls > 0
        /\ NotJson(req[r].ai_reply)
        => /\ req[r].exc \in {"", "StorageError"}
           /\ req[r].pc = "gt_persist" => req[r].test_data = default_test
           /\ req[r].status = 200 =>
                /\ req[r].body.questions = default_test.d.questions
                /\ Created(r).questions = default_test.d.questions

C3_Witness ==
    \E r \in Reqs :
        /\ TestDone(r) /\ req[r].status = 200
        /\ Len(req[r].history) >= 5
        /\ req[r].gen.kind = "raise"
        /\ Head(req[r].ai_reply) = Apology
        /\ Created(r).questions = default_test.d.questions

\* the parsed reply holds a questions key whose value is an array
HasQuestionsArray(v) ==
    v.t = "dict" /\ "questions" \in DOMAIN v.d /\ v.d.questions.t = "list"

\* C4: when the reply parses but holds no questions array, generate_test
\* persists and returns the template and surfaces no error.
C4_InvalidShapeFallsBack ==
    \A r \in Reqs :
        /\ TestDone(r)
        /\ req[r].calls > 0
        /\ req[r].exc # "StorageError"
        /\ ~NotJson(req[r].ai_reply)
        /\ ~HasQuestionsArray(json_loads(req[r].ai_reply).val)
        => /\ req[r].status = 200
           /\ req[r].body.questions = default_test.d.questions
           /\ Created(r).questions = default_test.d.questions

\* C5: generate_ai_reply never raises: every call of it gives a string, and
\* when the model's call faulted the string is the apology with the fault's
\* description.
C5_GenerateNeverRaises ==
    \A r \in Reqs :
        req[r].calls > 0 =>
            /\ req[r].exc # "GenerationError"
            /\ req[r].ai_reply \in Seq(STRING)
            /\ req[r].gen.kind = "raise" => req[r].ai_reply = <<Apology>> \o req[r].gen.e
            /\ req[r].gen.kind = "nogen" =>
                    req[r].ai_reply = <<Apology, "list index out of range">>

C5_Witness ==
    \E r \in Reqs :
        /\ req[r].kind = "chat" /\ req[r].pc = "save_ai"
        /\ req[r].gen = Raises(<<"timeout">>)
        /\ req[r].ai_reply = <<Apology, "timeout">>

\* what the specification's algorithm counts, on a list of answer items
SubjectOf(q) == IF "subject" \in DOMAIN q THEN q.subject ELSE "General"
IsMultipleChoice(q) == "type" \in DOMAIN q /\ q.type = "mcq"
IsCorrect(q) ==
    /\ IsMultipleChoice(q)
    /\ "studentAnswer" \in DOMAIN q /\ "answer" \in DOMAIN q
    /\ Len(q.studentAnswer) > 0
    /\ q.studentAnswer = q.answer
Count(a, P(_)) == Cardinality({i \in 1..Len(a) : P(a[i])})

\* C6: after each item and at the end of scoring, the correct count is at most
\* the multiple-choice count, and every subject has 0 <= correct <= total.
C6_CorrectAtMostTotal ==
    sc # EmptyDict =>
        /\ 0 <= sc.s.correct_count /\ sc.s.correct_count <= sc.s.total_mcq
        /\ \A subj \in DOMAIN sc.s.subject_scores :
              /\ 0 <= sc.s.subject_scores[subj].correct
              /\ sc.s.subject_scores[subj].correct <= sc.s.subject_scores[subj].total

C6_Witness ==
    /\ sc # EmptyDict /\ sc.pc = "done"
    /\ Len(sc.answers) = 3
    /\ sc.s.correct_count = 1 /\ sc.s.total_mcq = 2
    /\ "Math" \in DOMAIN sc.s.subject_scores
    /\ sc.s.subject_scores["Math"] = [correct |-> 1, total |-> 3]

\* C7: scoring gives what the specified algorithm gives: the aggregate is
\* "correctCount/totalMcq", or null without a multiple-choice item, and each
\* subject's total counts its items of either type, its correct its correct
\* multiple-choice items; an absent subject is "General".
C7_ScoreAsSpecified ==
    sc # EmptyDict /\ sc.pc = "done" =>
        LET a == sc.answers
            totalMcq == Count(a, IsMultipleChoice)
            correctCount == Count(a, IsCorrect)
        IN  /\ sc.score = IF totalMcq = 0 THEN JNull
                          ELSE JStr(ToStr(correctCount) \o <<"/">> \o ToStr(totalMcq))
            /\ DOMAIN sc.s.subject_scores = {SubjectOf(a[i]) : i \in 1..Len(a)}
            /\ \A subj \in DOMAIN sc.s.subject_scores :
                  /\ sc.s.subject_scores[subj].total =
                        Cardinality({i \in 1..Len(a) : SubjectOf(a[i]) = subj})
                  /\ sc.s.subject_scores[subj].correct =
                        Cardinality({i \in 1..Len(a) :
                                        SubjectOf(a[i]) = subj /\ IsCorrect(a[i])})

\* scenario 3 of the specification
C7_Witness ==
    /\ sc # EmptyDict /\ sc.pc = "done"
    /\ sc.answers = Answers1
    /\ sc.score = JStr(<<"1", "/", "2">>)
    /\ sc.s.subject_scores = [Math |-> [correct |-> 1, total |-> 2]]

\* the two documents a chat stores
UserDoc(r, t) == [role |-> "user", message |-> req[r].user_msg, timestamp |-> t]
AiDoc(r, t) == [role |-> "ai", message |-> req[r].ai_reply, timestamp |-> t]

\* C8: a chat that meets no storage fault appends two turns to its student's
\* log, the student's message and then the tutor's reply, also when the model's
\* call faulted; nothing else changes a log, so no other student's log changes.
C8_ChatAppendsTwo ==
    /\ [](\A r \in Reqs :
            req[r].kind = "chat" /\ req[r].pc = "done" /\ req[r].status = 200 =>
                \E d1, d2 \in chats[req[r].uid] :
                    /\ d1 = UserDoc(r, d1.timestamp)
                    /\ d2 = AiDoc(r, d2.timestamp)
                    /\ d1.timestamp < d2.timestamp)
    /\ [][\A u \in Uids :
            chats'[u] # chats[u] =>
                \E r \in Reqs :
                    /\ req[r].kind = "chat" /\ req[r].uid = u
                    /\ Cardinality(chats'[u]) = Cardinality(chats[u]) + 1
                    /\ \/ /\ req[r].pc = "save_user" /\ req'[r].pc = "fetch"
                          /\ chats'[u] = chats[u] \cup {UserDoc(r, clock)}
                       \/ /\ req[r].pc = "save_ai" /\ req'[r].pc = "done"
                          /\ chats'[u] = chats[u] \cup {AiDoc(r, clock)}]_vars

\* scenario 1 of the specification, with the model's call faulting
C8_Witness ==
    \E r \in Reqs :
        /\ req[r].kind = "chat" /\ req[r].pc = "done" /\ req[r].status = 200
        /\ req[r].uid = <<"s2">>
        /\ req[r].gen.kind = "raise"
        /\ Cardinality(chats[<<"s2">>]) = 2
        /\ chats[<<"s1">>] = SeedLog(SeedTurns)

\* a field that is missing, or empty once trimmed
Blank(d, k) == k \notin DOMAIN d \/ \A i \in 1..Len(d[k]) : d[k][i] \in {" ", "\n"}

MissingRequired(q) ==
    CASE q.kind = "chat" -> Blank(q.data, "uid") \/ Blank(q.data, "message")
      [] q.kind = "generate_test" -> Blank(q.data, "uid")
      [] q.kind = "submit_test" -> Blank(q.data, "uid") \/ Blank(q.data, "testId")
      [] q.kind = "get_tests" -> Blank(q.data, "uid")
      [] OTHER -> FALSE

\* C9: a request with a required field missing or blank is answered 400 on
\* arrival: the chat log and the test store are unchanged, the model is not
\* called, and the request takes no further step.
C9_BlankFieldRejected ==
    /\ [][\A r \in Reqs :
            req[r].pc = "idle" /\ req'[r].pc # "idle" /\ MissingRequired(req'[r]) =>
                /\ req'[r].pc = "done" /\ req'[r].status = 400
                /\ req'[r].calls = 0
                /\ chats' = chats /\ tests' = tests]_vars
    /\ [][\A r \in Reqs :
            req[r].pc = "done" /\ req[r].status = 400 /\ req'[r] # req[r] =>
                req'[r] = IdleReq /\ chats' = chats /\ tests' = tests]_vars

C9_Witness ==
    \E r \in Reqs :
        /\ req[r].kind = "submit_test" /\ req[r].pc = "done" /\ req[r].status = 400
        /\ ~Blank(req[r].data, "uid") /\ "testId" \in DOMAIN req[r].data
        /\ Blank(req[r].data, "testId")

\* C10: fetch_chat_history(uid, limit) returns at most limit turns, the most
\* recent of the student's log, oldest first, and leaves the log as it was.
C10_FetchRecentOldestFirst ==
    /\ [](fx # EmptyDict =>
            LET log == chats[fx.uid]
                h == fx.result
            IN  /\ Len(h) <= fx.limit
                /\ Len(h) = IF Cardinality(log) < fx.limit THEN Cardinality(log)
                            ELSE fx.limit
                /\ \A i \in 1..Len(h) : h[i] \in log
                /\ \A i \in 1..Len(h) : \A d \in log :
                      d.timestamp > h[i].timestamp => \E j \in 1..Len(h) : h[j] = d
                /\ \A i, j \in 1..Len(h) : i < j => h[i].timestamp < h[j].timestamp)
    /\ [][fx' # fx => chats' = chats]_vars

C10_Witness ==
    /\ fx # EmptyDict
    /\ Cardinality(chats[fx.uid]) = MaxStamp
    /\ fx.limit = 2
    /\ Len(fx.result) = 2
    /\ fx.result[2].timestamp = MaxStamp

----------------------------------------------------------------------------
\* the results a submission stores on a test
Results(doc) ==
    [k \in DOMAIN doc \cap {"studentAnswers", "score", "subjectScores"} |-> doc[k]]

IsCompleted(u, id) == id \in DOMAIN tests[u] /\ tests[u][id].completed

\* C11: once a test has been completed, no later step - a later submission
\* against the same student id and test id in particular - changes its stored
\* answers, its aggregate score or its subject breakdown.
C11_CompletedResultsFrozen ==
    [][\A u \in Uids : \A id \in DOMAIN tests[u] :
          IsCompleted(u, id) =>
              /\ id \in DOMAIN tests'[u]
              /\ Results(tests'[u][id]) = Results(tests[u][id])]_vars

----------------------------------------------------------------------------
\* C12: the conversation log is append-only: whatever requests run and however
\* their steps interleave, every turn that is in a student's log is in it
\* after the step, with the same role, text and timestamp.
C12_LogAppendOnly ==
    [][\A u \in Uids : chats[u] \subseteq chats'[u]]_vars

\* two chats of one student have interleaved their writes on the seeded log,
\* and a test has been composed and submitted
C12_Witness ==
    /\ SeedLog(SeedTurns) \subseteq chats[<<"s1">>]
    /\ Cardinality(chats[<<"s1">>]) >= SeedTurns + 2
    /\ \A r \in Reqs : req[r].kind = "chat" /\ req[r].pc = "save_ai"
    /\ \E id \in DOMAIN tests[<<"s1">>] : tests[<<"s1">>][id].completed

----------------------------------------------------------------------------
\* C13: every turn stored in a conversation log has a non-empty text, the
\* student's turns and the tutor's alike, whatever the model returned.
C13_TurnsNonEmpty ==
    \A u \in Uids : \A d \in chats[u] : d.message # <<>>

----------------------------------------------------------------------------
\* s has k newlines in a row: k - 1 blank lines in a row when text is around
HasNewlineRun(s, k) ==
    \E i \in 1..(Len(s) - k + 1) : \A j \in i..(i + k - 1) : s[j] = "\n"

Trimmed(s) == s = <<>> \/ (~IsSpace(s[1]) /\ ~IsSpace(s[Len(s)]))

\* C14: for every text the model returns, the reply has no leading and no
\* trailing whitespace, and where the text had a run of 3 or more blank lines
\* the reply has no two blank lines in a row: the run is one blank line.
C14_ReplyNormalised ==
    \A r \in Reqs :
        (req[r].kind = "chat" /\ req[r].pc \in {"save_ai", "done"}
            /\ req[r].gen.kind = "ok") =>
            /\ Trimmed(req[r].ai_reply)
            /\ HasNewlineRun(strip(req[r].gen.text), 4)
                  => ~HasNewlineRun(req[r].ai_reply, 3)

----------------------------------------------------------------------------
\* the part of a prompt between its two fixed headings
TranscriptSection(prompt, msg) ==
    SubSeq(prompt, Len(guardrails_prefix) + 3, Len(prompt) - 8 - Len(msg))

NoPreviousMessages == <<"(no previous messages)", "\n">>

RoleLabel(d) == IF d.role = "ai" THEN "AI" ELSE "USER"

\* the turns of a window as lines "ROLE: text", the first turn first
RECURSIVE Transcript(_)
Transcript(w) ==
    IF w = <<>> THEN <<>>
    ELSE LET n == Len(w)
         IN  (IF n = 1 THEN <<>> ELSE Transcript(SubSeq(w, 1, n - 1)) \o <<"\n">>)
             \o <<RoleLabel(w[n]), ": ">> \o w[n].message

Restamp(w) == [i \in 1..Len(w) |-> [w[i] EXCEPT !.timestamp = 0]]

\* C15: the transcript section of a built prompt is the marker
\* "(no previous messages)" exactly when the window is empty; for a window
\* that is not empty it is the turns as "ROLE: text", the role in upper case,
\* one turn a line, in the window's order; the timestamps of the turns do not
\* change the prompt.
C15_TranscriptSection ==
    fx # EmptyDict =>
        LET section == TranscriptSection(fx.prompt, fx.message)
        IN  /\ (section = NoPreviousMessages) <=> (fx.window = <<>>)
            /\ fx.window # <<>> => section = Transcript(fx.window)
            /\ fx.prompt =
                  build_prompt(format_history_for_prompt(Restamp(fx.window)), fx.message)

\* a prompt was built on a window of both roles whose stamps are not 1, 2, ..
C15_Witness ==
    /\ fx # EmptyDict
    /\ Len(fx.window) >= 2
    /\ fx.window[1].role # fx.window[2].role
    /\ fx.window[1].timestamp > 1
    /\ \E i \in 1..Len(fx.window) : fx.window[i].message = <<>>

----------------------------------------------------------------------------
\* the roles of the n newest turns of a window, the oldest first
LastRoles(h, n) == [i \in 1..n |-> h[Len(h) - n + i].role]

\* request r has stored its student turn and fetched, and not stored a reply
AwaitingReply(r) == req[r].kind = "chat" /\ req[r].pc \in {"generate", "save_ai"}

\* C16: two chat requests of one student do not exclude each other.  Whenever
\* both have stored their student turn and fetched their window and neither
\* has stored its reply, the two newest turns of the log are both student
\* turns, and the window of one of the requests ends with both of them: its
\* prompt holds the student message of the other request.
C16_ChatsInterleave ==
    \A r, q \in Reqs :
        (r # q /\ AwaitingReply(r) /\ AwaitingReply(q) /\ req[r].uid = req[q].uid) =>
            /\ LastRoles(fetch_chat_history(chats[req[r].uid], 2), 2) = <<"user", "user">>
            /\ \E x \in {r, q} :
                  /\ Len(req[x].history) >= 2
                  /\ LastRoles(req[x].history, 2) = <<"user", "user">>

\* both requests of student s1 have answered, and the four newest turns of
\* the log are the two student turns and then the two replies
C16_Witness ==
    /\ \A r \in Reqs :
          /\ req[r].kind = "chat" /\ req[r].pc = "done" /\ req[r].status = 200
          /\ req[r].uid = <<"s1">>
    /\ LastRoles(fetch_chat_history(chats[<<"s1">>], 4), 4) = <<"user", "user", "ai", "ai">>
    /\ \E x \in Reqs : LastRoles(req[x].history, 2) = <<"user", "user">>

----------------------------------------------------------------------------
InChat(r) ==
    req[r].kind = "chat" /\ req[r].pc \in {"save_user", "fetch", "generate", "save_ai"}

Failed(q) == q.pc = "done" /\ q.status = 500

\* one step of the chat in slot r, as the claim orders the steps
ChatOrder(r) ==
    LET p == req[r]
        n == req'[r]
        log == chats[p.uid]
    IN  CASE p.pc = "save_user" ->
                \/ Failed(n) /\ chats' = chats
                \/ /\ n.pc = "fetch" /\ n.calls = 0 /\ n.history = <<>>
                   /\ chats'[p.uid] = log \cup {UserDoc(r, clock)}
          [] p.pc = "fetch" ->
                /\ chats' = chats
                /\ \/ Failed(n)
                   \/ /\ n.pc = "generate" /\ n.calls = 0
                      /\ Len(n.history) >= 1 /\ Len(n.history) <= 14
                      /\ n.history[Len(n.history)] = UserDoc(r, clock - 1)
                      /\ \A i \in 1..Len(n.history) : n.history[i] \in log
          [] p.pc = "generate" ->
                /\ chats' = chats
                /\ n.pc = "save_ai" /\ n.calls = 1 /\ n.history = p.history
          [] p.pc = "save_ai" ->
                /\ n.pc = "done" /\ n.calls = 1 /\ n.ai_reply = p.ai_reply
                /\ \/ Failed(n) /\ chats' = chats
                   \/ n.status = 200 /\ chats'[p.uid] = log \cup {AiDoc(r, clock)}

\* C17: the steps of one chat run in the order: store the student's message,
\* fetch the last 14 turns, generate, store the reply.  The model is not
\* called before the fetch has returned, the reply is not stored before the
\* model's call has returned, and, no other request running, the fetched
\* window ends with the student message just stored.
C17_ChatSequential ==
    /\ [](\A r \in Reqs : InChat(r) =>
            /\ req[r].calls = (IF req[r].pc = "save_ai" THEN 1 ELSE 0)
            /\ req[r].pc \in {"save_user", "fetch"} => req[r].history = <<>>)
    /\ [][\A r \in Reqs : (InChat(r) /\ req'[r] # req[r]) => ChatOrder(r)]_vars
    /\ [][\A r \in Reqs : (req'[r].kind = "chat" /\ req'[r].pc = "fetch")
                            => (req'[r] = req[r] \/ req[r].pc = "save_user")]_vars
    /\ [][\A r \in Reqs : (req'[r].kind = "chat" /\ req'[r].pc = "generate")
                            => (req'[r] = req[r] \/ req[r].pc = "fetch")]_vars
    /\ [][\A r \in Reqs : (req'[r].kind = "chat" /\ req'[r].pc = "save_ai")
                            => (req'[r] = req[r] \/ req[r].pc = "generate")]_vars

\* a chat of student s2 has run its four steps: its window was the student
\* message alone, and the log holds that message and then the reply
C17_Witness ==
    \E r \in Reqs :
        /\ req[r].kind = "chat" /\ req[r].pc = "done" /\ req[r].status = 200
        /\ req[r].uid = <<"s2">> /\ req[r].calls = 1
        /\ Len(req[r].history) = 1 /\ req[r].history[1].role = "user"
        /\ LastRoles(fetch_chat_history(chats[<<"s2">>], 2), 2) = <<"user", "ai">>

----------------------------------------------------------------------------
\* C18: a test that generate_test creates is stored with completed false and
\* score null and with the questions the response returns; a test that is
\* not completed has a null score; a completed test stays completed.
C18_TestLifecycle ==
    /\ [](\A u \in Uids : \A id \in DOMAIN tests[u] :
            ~tests[u][id].completed => tests[u][id].score = JNull)
    /\ [][\A u \in Uids : \A id \in DOMAIN tests'[u] \ DOMAIN tests[u] :
            /\ tests'[u][id].completed = FALSE
            /\ tests'[u][id].score = JNull
            /\ \E r \in Reqs :
                  /\ req[r].kind = "generate_test" /\ req[r].uid = u
                  /\ req'[r].pc = "done" /\ req'[r].status = 200
                  /\ req'[r].body.testId = id
                  /\ req'[r].body.questions = tests'[u][id].questions]_vars
    /\ [][\A u \in Uids : \A id \in DOMAIN tests[u] :
            /\ id \in DOMAIN tests'[u]
            /\ tests[u][id].completed => tests'[u][id].completed
            /\ tests'[u][id].questions = tests[u][id].questions]_vars

\* a test made from the model's reply has been submitted and carries a score
C18_Witness ==
    \E id \in DOMAIN tests[<<"s1">>] :
        /\ tests[<<"s1">>][id].completed
        /\ tests[<<"s1">>][id].score # JNull
        /\ tests[<<"s1">>][id].questions # default_test.d["questions"]

----------------------------------------------------------------------------
\* the storage call that request r is at has taken effect in this step
StorageCallDone(r) ==
    LET p == req[r]
        n == req'[r]
    IN  CASE p.pc = "save_user" ->
                n.pc = "fetch" /\ chats'[p.uid] = chats[p.uid] \cup {UserDoc(r, clock)}
          [] p.pc = "fetch" ->
                n.pc = "generate" /\ n.history # <<>>
          [] p.pc = "save_ai" ->
                n.status = 200 /\ chats'[p.uid] = chats[p.uid] \cup {AiDoc(r, clock)}
          [] p.pc = "gt_fetch" ->
                /\ n.pc \in {"gt_generate", "gt_persist"}
                /\ Len(n.history) = Cardinality(chats[p.uid])
          [] p.pc = "gt_persist" ->
                n.status = 200 /\ n.body.testId \in DOMAIN tests'[p.uid] \ DOMAIN tests[p.uid]
          [] p.pc = "st_update" ->
                n.status = 200 /\ tests'[p.uid][p.test_id].completed
          [] p.pc = "ls_query" ->
                n.status = 200 /\ Len(n.body.tests) = Cardinality(DOMAIN tests[p.uid])

\* C19: a storage fault is not absorbed.  A request at a call of the store
\* either gets the call's effect or ends in a failure: status 500, no normal
\* payload, the store as it was, the model not called; a request that has
\* ended takes no further step.
C19_StorageFaultSurfaces ==
    /\ [](\A r \in Reqs : req[r].exc = "StorageError" =>
            /\ Failed(req[r])
            /\ req[r].body = [error |-> "Internal Server Error"])
    /\ [][\A r \in Reqs : (req[r].pc \in StoragePcs /\ req'[r] # req[r]) =>
            \/ StorageCallDone(r)
            \/ /\ Failed(req'[r])
               /\ req'[r].body = [error |-> "Internal Server Error"]
               /\ req'[r].calls = req[r].calls
               /\ chats' = chats /\ tests' = tests]_vars
    /\ [][\A r \in Reqs : req[r].pc = "done" =>
            (req'[r] = req[r] \/ (req'[r] = IdleReq /\ chats' = chats /\ tests' = tests))]_vars

\* the first save_message of a chat of student s2 faulted: the request has
\* failed, the model was not called, and the log of s2 is empty
C19_Witness ==
    \E r \in Reqs :
        /\ req[r].kind = "chat" /\ req[r].uid = <<"s2">>
        /\ req[r].exc = "StorageError" /\ Failed(req[r])
        /\ req[r].calls = 0 /\ req[r].gen = NotCalled
        /\ chats[<<"s2">>] = {}

----------------------------------------------------------------------------
Submitted(r) ==
    req[r].kind = "submit_test" /\ req[r].pc = "done" /\ req[r].status = 200

AnswersOf(r) == Get(req[r].data, "answers", <<>>)

\* C20: what submit_test answers and stores depends on the submitted answers
\* alone.  Two submissions of the same answers get the same score and the
\* same breakdown by subject, whatever tests they are made against, and each
\* stores the score and the breakdown it answers with.
C20_ScoreFromAnswersOnly ==
    /\ [](\A r, q \in Reqs :
            (Submitted(r) /\ Submitted(q) /\ AnswersOf(r) = AnswersOf(q)) =>
                /\ req[r].body.score = req[q].body.score
                /\ req[r].body.subjectScores = req[q].body.subjectScores)
    /\ [][\A r \in Reqs :
            (req[r].pc = "st_update" /\ req'[r].pc = "done" /\ req'[r].status = 200) =>
                LET doc == tests'[req[r].uid][req[r].test_id]
                IN  /\ doc.score = req'[r].body.score
                    /\ doc.subjectScores = req'[r].body.subjectScores
                    /\ doc.studentAnswers = AnswersOf(r)
                    /\ doc.questions = tests[req[r].uid][req[r].test_id].questions]_vars

\* the submission of scenario 3 made against both tests: both are completed
\* with 1/2, and the first question of the one has the answer "4", of the
\* other the answer "8"
C20_Witness ==
    /\ Submitted("r1") /\ Submitted("r2")
    /\ req["r1"].uid = <<"s1">> /\ req["r2"].uid = <<"s2">>
    /\ AnswersOf("r1") = Answers1 /\ AnswersOf("r2") = Answers1
    /\ tests[<<"s1">>][<<"t", "1">>].score = JStr(<<"1", "/", "2">>)
    /\ tests[<<"s2">>][<<"t", "2">>].score = JStr(<<"1", "/", "2">>)
    /\ tests[<<"s1">>][<<"t", "1">>].questions.items[1].d.answer = "4"
    /\ tests[<<"s2">>][<<"t", "2">>].questions.items[1].d.answer = "8"
====
